---- MODULE Spec2Model ----
(***************************************************************************)
(* OPTIR (src/src/optir.rs): the block translation engine (BlockBuilder,   *)
(* Block::from_hlir_block), the CFG assembly (IR::from_blocks) and the     *)
(* return-count solver (compute_return_counts).                            *)
(*                                                                         *)
(* Bindings and labels are the 0-based indices of the source; a Vec is a   *)
(* sequence, so Vec index i is sequence position i + 1 (operator At).      *)
(* A panic (HashMap/Vec index out of range, todo!, unreachable!) ends the  *)
(* call without a result: the operators below return ok = FALSE.           *)
(***************************************************************************)
EXTENDS Integers, Sequences, FiniteSets, TLC

VARIABLES
    \* ---- block translation (Block::from_hlir_block / BlockBuilder)
    hlir_block,            \* the HLIR block being translated
    block_return_counts,   \* the return-count table handed to the translation
    builder,               \* the BlockBuilder
    next_assign,           \* position of the `for assignment in assigns` loop
    tpc,                   \* "idle" | "assigns" | "released" | "panicked"
    block,                 \* the released Block (NoBlock before)
    last_call,             \* the builder method applied last and what it returned
    calls,                 \* how many builder methods have been called directly
    \* ---- CFG assembly (IR::from_blocks)
    blocks,                \* the Vec<Block> given to from_blocks (their `end`s)
    visit,                 \* position of the blocks.iter().enumerate() pass
    forwards_branching_map,
    backwards_sets,        \* HashMap<Label, HashSet<Label>> built during the pass
    backwards_branching_map,
    cpc,                   \* "idle" | "visit" | "done"
    \* ---- return-count solver (compute_return_counts)
    hlir_blocks,           \* the &[hlir::Block] being solved
    slice,
    solved,
    queue,
    spc,                   \* "idle" | "loop" | "returned" | "panicked"
    debug_assertions,      \* "on" | "off": whether the build keeps debug_assert_eq!
                           \* ("unset" until the first debug_assert_eq! is met)
    perm,                  \* the reordering applied for the second run
    first_run              \* the table returned by the first run (NoTable before)

vars == <<hlir_block, block_return_counts, builder, next_assign, tpc, block,
          last_call, calls, blocks, visit, forwards_branching_map, backwards_sets,
          backwards_branching_map, cpc, hlir_blocks, slice, solved, queue, spc,
          debug_assertions, perm, first_run>>

tvars == <<hlir_block, block_return_counts, builder, next_assign, tpc, block,
           last_call, calls>>
cvars == <<blocks, visit, forwards_branching_map, backwards_sets,
           backwards_branching_map, cpc>>
svars == <<hlir_blocks, slice, solved, queue, spc, debug_assertions, perm,
           first_run>>

----------------------------------------------------------------------------
(* Bounds of the model *)

MaxArgs == 1        \* hlir_block.gets.len() ranges over 0..MaxArgs
MaxPures == 2       \* longest list of Pure values (Copied list, Add rest, Call params)
MaxAssigns == 1     \* most assignment statements of a translated block
MaxRet == 2         \* largest entry of block_return_counts
MaxCalls == 2       \* most direct calls of builder methods before release
MaxCfgBlocks == 2   \* longest block list given to IR::from_blocks
MaxBlocks == 3      \* most blocks of a solved program (filler blocks apart)

RetryIndexLimit == 10   \* `if next.index < 10` of compute_return_counts

ConstVals == {1, 2}     \* the u64 literals used as Pure::Constant
LabelVals == {0, 1}     \* the labels used by calls and branches of a block

----------------------------------------------------------------------------
(* Helpers on sequences *)

At(s, i) == s[i + 1]

Range0(n) == [i \in 1..n |-> i - 1]

RangeSeq(lo, hi) == [i \in 1..(IF hi > lo THEN hi - lo ELSE 0) |-> lo + i - 1]

SeqsUpTo(S, n) == UNION {[1..k -> S] : k \in 0..n}

SeqToSet(s) == {s[i] : i \in DOMAIN s}

----------------------------------------------------------------------------
(* Data model *)

\* hlir::Pure
PBinding(b) == [kind |-> "Binding", v |-> b]
PLabel(l) == [kind |-> "Label", v |-> l]
PConstant(c) == [kind |-> "Constant", v |-> c]

\* hlir::Value
VCopied(pures) == [kind |-> "Copied", pures |-> pures]
VAdd(lhs, rest) == [kind |-> "Add", lhs |-> lhs, rest |-> rest]
VCall(label, params) == [kind |-> "Call", label |-> label, params |-> params]

\* hlir::End
TailValue(value) == [kind |-> "TailValue", value |-> value]
EConditionalBranch(c, t, f) ==
    [kind |-> "ConditionalBranch", condition |-> c, label_if_true |-> t,
     label_if_false |-> f]
BlockIsEmpty == [kind |-> "BlockIsEmpty"]

\* hlir::AssignedBinding and an assignment statement
AssignedBinding(b, i) == [binding |-> b, assign_index |-> i]
Assignment(used, value) == [used_bindings |-> used, value |-> value]

\* optir::Constant (TryFrom<hlir::Pure>)
Numeric(c) == [kind |-> "Numeric", v |-> c]
CLabel(l) == [kind |-> "Label", v |-> l]

\* bucket::UsageIndex, bucket::Usage, bucket::Definition
UOp(i) == [tag |-> "Op", index |-> i]
UBlockEnd == [tag |-> "BlockEnd", index |-> 0]
Usage(kind, index) == [usage_kind |-> kind, index |-> index]
Exclusive == "Exclusive"
Argument(i) == [tag |-> "Argument", index |-> i]
DOp(i) == [tag |-> "Op", index |-> i]

\* optir::Op
OConstant(c) == [op |-> "Constant", constant |-> c]
OAdd(lhs, rhs) == [op |-> "Add", lhs |-> lhs, rhs |-> rhs]
OCall(label, args, usage_info_index) ==
    [op |-> "Call", label |-> label, args |-> args,
     usage_info_index |-> usage_info_index]

\* optir::BindingRange is Range<usize>: start..end, empty when start >= end
BindingRange(start, end) == [start |-> start, end |-> end]
RangeBindings(r) == RangeSeq(r.start, r.end)
RangeLen(r) == Len(RangeBindings(r))

\* optir::CallReturnUsage
CallReturnUsage(result_usage, range, label) ==
    [result_usage |-> result_usage, result_binding_range |-> range,
     called_label |-> label]

\* optir::CFTransfer (exported_bindings is always the empty map in this file)
Return(values) == [kind |-> "Return", values |-> values]
DirectBranch(target) == [kind |-> "DirectBranch", target |-> target]
ConditionalBranch(c, t, f) ==
    [kind |-> "ConditionalBranch", condition_source |-> c, target_if_true |-> t,
     target_if_false |-> f]

\* optir::ForwardEdge
Dynamic == [kind |-> "Dynamic"]
Direct(l) == [kind |-> "Direct", target |-> l]
Conditional(t, f) ==
    [kind |-> "Conditional", target_if_true |-> t, target_if_false |-> f]

NoBlock == [kind |-> "none"]
NoTable == <<-1>>
NoCall == [method |-> "none"]

----------------------------------------------------------------------------
(* BlockBuilder.  Every method is an operator from the builder (and the     *)
(* method's arguments) to [b |-> the builder afterwards, ret |-> the value  *)
(* returned, ok |-> FALSE when the method panicked].                        *)
(* allocs and call_results are history fields: allocs logs every call of    *)
(* new_binding (the binding returned, the definition passed in), and        *)
(* call_results logs, per compile_call, the index its Call operation was    *)
(* pushed at and the bindings its result loop got from new_binding.  No     *)
(* method reads them.                                                       *)

Ret(b, ret) == [b |-> b, ret |-> ret, ok |-> TRUE]
Panic(b) == [b |-> b, ret |-> <<>>, ok |-> FALSE]

EmptyMap == [x \in {} |-> 0]

\* the BlockBuilder literal of from_hlir_block
NewBuilder(gets_len) ==
    [hlir_results |-> EmptyMap,
     ops |-> <<>>,
     arg_count |-> gets_len,
     binding_definitions |-> [i \in 1..gets_len |-> Argument(i - 1)],
     call_return_usages |-> <<>>,
     binding_usages |-> <<>>,
     binding_count |-> 0,
     allocs |-> <<>>,
     call_results |-> <<>>]

register_result(b, hlir_target, self_target) ==
    [b EXCEPT !.hlir_results =
        [x \in (DOMAIN @) \cup {hlir_target} |->
            IF x = hlir_target THEN self_target ELSE @[x]]]

usage_for_next_op(b, usage_kind) == Usage(usage_kind, UOp(Len(b.ops)))

\* a fresh binding is the length of binding_usages; the definition is unused
new_binding(b, definition) ==
    LET index == Len(b.binding_usages) IN
    Ret([b EXCEPT !.binding_usages = Append(@, <<>>),
                  !.allocs = Append(@, [binding |-> index,
                                        definition |-> definition])],
        index)

push_op(b, op) == [b EXCEPT !.ops = Append(@, op)]

define(b, op) ==
    LET definition == DOp(Len(b.ops)) IN
    new_binding([b EXCEPT !.ops = Append(@, op)], definition)

\* &mut self.binding_usages[binding]: a Vec index, which panics out of range
HasUsageBucket(b, binding) == binding < Len(b.binding_usages)
get_usage_bucket(b, binding) == At(b.binding_usages, binding)
PushUsage(b, binding, usage) ==
    [b EXCEPT !.binding_usages[binding + 1] =
                  Append(get_usage_bucket(b, binding), usage)]

\* Constant::try_from(hlir::Pure): Err(binding) for a Binding
ConstantTryFrom(value) ==
    CASE value.kind = "Binding" -> [ok |-> FALSE, v |-> value.v]
      [] value.kind = "Label" -> [ok |-> TRUE, v |-> CLabel(value.v)]
      [] value.kind = "Constant" -> [ok |-> TRUE, v |-> Numeric(value.v)]

\* self.hlir_results[&alias] is HashMap's Index: it panics on a missing key
compile_pure(b, hlir_value) ==
    LET c == ConstantTryFrom(hlir_value) IN
    IF c.ok THEN define(b, OConstant(c.v))
    ELSE IF c.v \in DOMAIN b.hlir_results
         THEN Ret(b, b.hlir_results[c.v])
         ELSE Panic(b)

\* the map of compile_copied: the values are compiled first to last
RECURSIVE CopiedMap(_, _, _)
CopiedMap(b, pures, acc) ==
    IF pures = <<>> THEN Ret(b, acc)
    ELSE LET r == compile_pure(b, Head(pures)) IN
         IF ~r.ok THEN Panic(r.b)
         ELSE CopiedMap(r.b, Tail(pures), Append(acc, r.ret))

\* the closure of compile_add's fold, applied to the rest of the operands
RECURSIVE AddFold(_, _, _)
\* mutant of AddFold: the usage is taken before the operand is compiled
AddFold_usage_before_rhs(b, lhs, rest) ==
    IF rest = <<>> THEN Ret(b, lhs)
    ELSE LET usage == usage_for_next_op(b, Exclusive)
             r == compile_pure(b, Head(rest))
         IN IF ~r.ok THEN Panic(r.b)
            ELSE IF ~HasUsageBucket(r.b, lhs) \/ ~HasUsageBucket(r.b, r.ret)
                 THEN Panic(r.b)
                 ELSE LET d == define(PushUsage(PushUsage(r.b, lhs, usage),
                                                r.ret, usage),
                                      OAdd(lhs, r.ret))
                      IN AddFold(d.b, d.ret, Tail(rest))

AddFold(b, lhs, rest) ==
    IF rest = <<>> THEN Ret(b, lhs)
    ELSE LET r == compile_pure(b, Head(rest)) IN
         IF ~r.ok THEN Panic(r.b)
         ELSE LET rhs == r.ret
                  usage == usage_for_next_op(r.b, Exclusive)
              IN IF ~HasUsageBucket(r.b, lhs) THEN Panic(r.b)
                 ELSE LET b1 == PushUsage(r.b, lhs, usage) IN
                      IF ~HasUsageBucket(b1, rhs) THEN Panic(b1)
                      ELSE LET b2 == PushUsage(b1, rhs, usage)
                               d == define(b2, OAdd(lhs, rhs))
                           IN AddFold(d.b, d.ret, Tail(rest))

\* mutant of compile_add: every operand is compiled before the first Add
RECURSIVE AddBindings(_, _, _)
AddBindings(b, lhs, rest) ==
    IF rest = <<>> THEN Ret(b, lhs)
    ELSE LET rhs == Head(rest)
             usage == usage_for_next_op(b, Exclusive)
             d == define(PushUsage(PushUsage(b, lhs, usage), rhs, usage),
                         OAdd(lhs, rhs))
         IN AddBindings(d.b, d.ret, Tail(rest))

compile_add_operands_first(b, lhs, rest) ==
    LET c == CopiedMap(b, <<lhs>> \o rest, <<>>) IN
    IF ~c.ok THEN Panic(c.b) ELSE AddBindings(c.b, Head(c.ret), Tail(c.ret))

compile_add(b, lhs, rest) ==
    LET l == compile_pure(b, lhs) IN
    IF ~l.ok THEN Panic(l.b) ELSE AddFold(l.b, l.ret, rest)

Reversed(s) == [i \in DOMAIN s |-> s[Len(s) + 1 - i]]

\* mutant of compile_copied: the values are compiled last to first
compile_copied_backwards(b, pures) ==
    LET r == CopiedMap(b, Reversed(pures), <<>>) IN
    [r EXCEPT !.ret = Reversed(@)]

compile_copied(b, pures) == CopiedMap(b, pures, <<>>)

\* step 1 of compile_call: each parameter is compiled and given `usage`
RECURSIVE CallParams(_, _, _, _)
CallParams(b, params, usage, acc) ==
    IF params = <<>> THEN Ret(b, acc)
    ELSE LET r == compile_pure(b, Head(params)) IN
         IF ~r.ok THEN Panic(r.b)
         ELSE IF ~HasUsageBucket(r.b, r.ret) THEN Panic(r.b)
         ELSE CallParams(PushUsage(r.b, r.ret, usage), Tail(params), usage,
                         Append(acc, r.ret))

\* AssignedUsage::Specific: one new_binding per used binding, registered as
\* the HLIR target; ret is <<result_usage, the bindings new_binding returned>>
RECURSIVE CallSpecific(_, _, _, _, _)
CallSpecific(b, used_bindings, definition, result_usage, fresh) ==
    IF used_bindings = <<>> THEN Ret(b, <<result_usage, fresh>>)
    ELSE LET assign == Head(used_bindings)
             n == new_binding(b, definition)
             b1 == register_result(n.b, assign.binding, n.ret)
         IN CallSpecific(b1, Tail(used_bindings), definition,
                         Append(result_usage, assign.assign_index),
                         Append(fresh, n.ret))

\* AssignedUsage::All: target_return_count calls of new_binding
RECURSIVE CallAll(_, _, _, _)
CallAll(b, remaining, definition, fresh) ==
    IF remaining = 0 THEN Ret(b, fresh)
    ELSE LET n == new_binding(b, definition) IN
         CallAll(n.b, remaining - 1, definition, Append(fresh, n.ret))

AssignedAll == [kind |-> "All"]
AssignedSpecific(used_bindings) == [kind |-> "Specific", used |-> used_bindings]

\* mutant of ResultBindingRange: the end is the number of bindings allocated
\* so far, the start still the never-updated binding_count
ResultBindingRange_to_len(b, result_start_index) ==
    BindingRange(result_start_index, Len(b.binding_usages))

\* BindingRange(result_start_index..self.binding_count)
ResultBindingRange(b, result_start_index) ==
    BindingRange(result_start_index, b.binding_count)

\* mutant of compile_call: usage_info_index is the length of
\* call_return_usages after the push
compile_call_index_after_push(b, label, params, assigned_usage, target_return_count) ==
    LET usage == usage_for_next_op(b, Exclusive)
        p == CallParams(b, params, usage, <<>>)
    IN IF ~p.ok THEN Panic(p.b)
       ELSE
       LET result_start_index == p.b.binding_count
           definition == DOp(usage.index.index)
           res == IF assigned_usage.kind = "Specific"
                  THEN CallSpecific(p.b, assigned_usage.used, definition,
                                    <<>>, <<>>)
                  ELSE LET a == CallAll(p.b, target_return_count, definition,
                                        <<>>)
                       IN Ret(a.b, <<Range0(target_return_count), a.ret>>)
           result_usage == res.ret[1]
           result_binding_range == ResultBindingRange(res.b, result_start_index)
           b1 == push_op(res.b, OCall(label, p.ret,
                                      Len(res.b.call_return_usages) + 1))
           b2 == [b1 EXCEPT
                    !.call_return_usages =
                        Append(@, CallReturnUsage(result_usage,
                                                  result_binding_range, label)),
                    !.call_results = Append(@, [op_index |-> Len(res.b.ops),
                                                bindings |-> res.ret[2]])]
       IN Ret(b2, result_binding_range)

compile_call(b, label, params, assigned_usage, target_return_count) ==
    LET usage == usage_for_next_op(b, Exclusive)
        p == CallParams(b, params, usage, <<>>)
    IN IF ~p.ok THEN Panic(p.b)
       ELSE
       LET result_start_index == p.b.binding_count
           definition == DOp(usage.index.index)
           res == IF assigned_usage.kind = "Specific"
                  THEN CallSpecific(p.b, assigned_usage.used, definition,
                                    <<>>, <<>>)
                  ELSE LET a == CallAll(p.b, target_return_count, definition,
                                        <<>>)
                       IN Ret(a.b, <<Range0(target_return_count), a.ret>>)
           result_usage == res.ret[1]
           result_binding_range == ResultBindingRange(res.b, result_start_index)
           b1 == push_op(res.b, OCall(label, p.ret,
                                      Len(res.b.call_return_usages)))
           b2 == [b1 EXCEPT
                    !.call_return_usages =
                        Append(@, CallReturnUsage(result_usage,
                                                  result_binding_range, label)),
                    !.call_results = Append(@, [op_index |-> Len(res.b.ops),
                                                bindings |-> res.ret[2]])]
       IN Ret(b2, result_binding_range)

release(b, end) ==
    [arg_count |-> b.arg_count,
     binding_defs |-> b.binding_definitions,
     binding_usages |-> b.binding_usages,
     call_return_usages |-> b.call_return_usages,
     operations |-> b.ops,
     end |-> end]

----------------------------------------------------------------------------
(* Block::from_hlir_block *)

\* Value::Copied of the assignment loop: compile, then zip the targets with
\* the results and register each pair
RECURSIVE RegisterZip(_, _, _)
RegisterZip(b, used_bindings, results) ==
    IF used_bindings = <<>> \/ results = <<>> THEN b
    ELSE RegisterZip(register_result(b, Head(used_bindings).binding,
                                     Head(results)),
                     Tail(used_bindings), Tail(results))

\* the zip of the assignment's targets with the outcome r of compile_copied
RegisterCopied(r, used_bindings) ==
    IF ~r.ok THEN Panic(r.b)
    ELSE Ret(RegisterZip(r.b, used_bindings, r.ret), r.ret)

\* one iteration of `for assignment in hlir_block.assigns`
CompileAssignment(b, assignment) ==
    IF assignment.value.kind = "Copied"
    THEN RegisterCopied(compile_copied(b, assignment.value.pures),
                        assignment.used_bindings)
    ELSE Panic(b)   \* Value::Add and Value::Call are todo!()

\* CFTransfer::Return(bindings) around the outcome r of a compile_* method
ReturnOf(r) == IF r.ok THEN Ret(r.b, Return(r.ret)) ELSE Panic(r.b)

\* Return(vec![result]) of compile_add
ReturnSingle(r) == IF r.ok THEN Ret(r.b, Return(<<r.ret>>)) ELSE Panic(r.b)

\* Return(bindings.collect()) of the range compile_call returned
ReturnRange(r) ==
    IF r.ok THEN Ret(r.b, Return(RangeBindings(r.ret))) ELSE Panic(r.b)

\* CFTransfer::ConditionalBranch on the compiled condition
BranchOn(r, target_if_true, target_if_false) ==
    IF r.ok
    THEN Ret(r.b, ConditionalBranch(r.ret, target_if_true, target_if_false))
    ELSE Panic(r.b)

\* `let end = match hlir_block.end`: ret is the CFTransfer
CompileEnd(b, end, return_counts) ==
    CASE end.kind = "TailValue" /\ end.value.kind = "Copied" ->
            ReturnOf(compile_copied(b, end.value.pures))
      [] end.kind = "TailValue" /\ end.value.kind = "Add" ->
            ReturnSingle(compile_add(b, end.value.lhs, end.value.rest))
      [] end.kind = "TailValue" /\ end.value.kind = "Call" ->
            IF end.value.label >= Len(return_counts) THEN Panic(b)
            ELSE ReturnRange(compile_call(b, end.value.label, end.value.params,
                                          AssignedAll,
                                          At(return_counts, end.value.label)))
      [] end.kind = "ConditionalBranch" ->
            BranchOn(compile_pure(b, end.condition), end.label_if_true,
                     end.label_if_false)
      [] end.kind = "BlockIsEmpty" -> Panic(b)   \* unreachable!()

----------------------------------------------------------------------------
(* The HLIR blocks translated.  HLIR numbers a block's bindings densely:    *)
(* the arguments first, then the targets of the assignments in order.       *)

PureLabel == PLabel(0)

Pures(nb) ==
    {PBinding(x) : x \in 0..(nb - 1)} \cup {PConstant(c) : c \in ConstVals}
        \cup {PureLabel}

PureLists(P) == SeqsUpTo(P, MaxPures)

Values(P) ==
    {VCopied(l) : l \in PureLists(P)}
        \cup {VAdd(lhs, rest) : lhs \in P, rest \in PureLists(P)}
        \cup {VCall(label, params) : label \in LabelVals, params \in PureLists(P)}

Ends(P) ==
    {TailValue(v) : v \in Values(P)}
        \cup {EConditionalBranch(c, t, f) : c \in P, t \in LabelVals, f \in LabelVals}
        \cup {BlockIsEmpty}

Targets(nb, n) == [j \in 1..n |-> AssignedBinding(nb + j - 1, j - 1)]

\* the assignment statements used, when nb bindings are already defined
Statements(nb) ==
    {Assignment(Targets(nb, 1), VCopied(<<PConstant(1)>>)),
     Assignment(Targets(nb, 2), VCopied(<<PConstant(1), PConstant(2)>>)),
     Assignment(Targets(nb, 1), VAdd(PConstant(1), <<PConstant(2)>>)),
     Assignment(Targets(nb, 1), VCall(0, <<>>))}
        \cup (IF nb > 0
              THEN {Assignment(Targets(nb, 1), VCopied(<<PBinding(nb - 1)>>))}
              ELSE {})

\* the terminators used after assignments: they refer to the last binding
EndsAfter(nb) ==
    {TailValue(VCopied(<<PBinding(nb - 1)>>)),
     TailValue(VCopied(<<PBinding(nb - 1), PConstant(1)>>)),
     TailValue(VAdd(PBinding(nb - 1), <<PConstant(1)>>)),
     TailValue(VCall(0, <<PBinding(nb - 1)>>)),
     EConditionalBranch(PBinding(nb - 1), 0, 1)}

RECURSIVE AssignLists(_, _)
\* the lists of 1..k statements, each paired with the bindings defined after it
AssignLists(nb, k) ==
    IF k = 0 THEN {}
    ELSE LET one == {<<(<<s>>), nb + Len(s.used_bindings)>> : s \in Statements(nb)}
         IN one \cup
            UNION {{<<(<<a[1][1]>>) \o more[1], more[2]>> :
                        more \in AssignLists(a[2], k - 1)} : a \in one}

HlirBlock(gets_len, assigns, end) ==
    [gets |-> Range0(gets_len), assigns |-> assigns, end |-> end]

BlocksNoAssigns ==
    UNION {{HlirBlock(n, <<>>, e) : e \in Ends(Pures(n))} : n \in 0..MaxArgs}

BlocksWithAssigns ==
    UNION {UNION {{HlirBlock(n, a[1], e) : e \in EndsAfter(a[2])} :
                    a \in AssignLists(n, MaxAssigns)} : n \in 0..MaxArgs}

HlirBlocks == BlocksNoAssigns \cup BlocksWithAssigns

\* return-count tables over the labels of LabelVals, entries in 0..MaxRet
ReturnTables ==
    {[i \in 1..Cardinality(LabelVals) |-> (c + i - 1) % (MaxRet + 1)] :
        c \in 0..MaxRet}

IsTailCall(blk) == blk.end.kind = "TailValue" /\ blk.end.value.kind = "Call"

\* the table matters to a block that ends in a tail call only
TablesFor(blk) ==
    IF IsTailCall(blk) THEN ReturnTables
    ELSE {[i \in 1..Cardinality(LabelVals) |-> 0]}

----------------------------------------------------------------------------
(* Idle values of the components a specification does not run *)

TranslationIdle ==
    /\ hlir_block = HlirBlock(0, <<>>, BlockIsEmpty)
    /\ block_return_counts = <<>>
    /\ builder = NewBuilder(0)
    /\ next_assign = 1
    /\ tpc = "idle"
    /\ block = NoBlock
    /\ last_call = NoCall
    /\ calls = 0

CFGIdle ==
    /\ blocks = <<>>
    /\ visit = 0
    /\ forwards_branching_map = EmptyMap
    /\ backwards_sets = EmptyMap
    /\ backwards_branching_map = EmptyMap
    /\ cpc = "idle"

SolverIdle ==
    /\ hlir_blocks = <<>>
    /\ slice = <<>>
    /\ solved = {}
    /\ queue = <<>>
    /\ spc = "idle"
    /\ debug_assertions = "unset"
    /\ perm = <<>>
    /\ first_run = NoTable

----------------------------------------------------------------------------
(* Specification Spec: Block::from_hlir_block on one HLIR block *)

\* from_hlir_block up to the construction of the builder
Init ==
    /\ \E blk \in HlirBlocks :
         /\ hlir_block = blk
         /\ \E t \in TablesFor(blk) : block_return_counts = t
         /\ builder = NewBuilder(Len(blk.gets))
    /\ next_assign = 1
    /\ tpc = "assigns"
    /\ block = NoBlock
    /\ last_call = NoCall
    /\ calls = 0
    /\ CFGIdle
    /\ SolverIdle

\* the builder after an iteration of the loop that returned or panicked as r
Assigned(r) ==
    /\ builder' = r.b
    /\ tpc' = IF r.ok THEN "assigns" ELSE "panicked"
    /\ last_call' = [method |-> "assignment", ok |-> r.ok, ret |-> r.ret]

\* one iteration of the loop over hlir_block.assigns
TranslateAssignment ==
    /\ tpc = "assigns"
    /\ next_assign <= Len(hlir_block.assigns)
    /\ Assigned(CompileAssignment(builder, hlir_block.assigns[next_assign]))
    /\ next_assign' = next_assign + 1
    /\ UNCHANGED <<hlir_block, block_return_counts, block, calls>>
    /\ UNCHANGED <<cvars, svars>>

\* builder.release(end) on the terminator r, or the panic compiling it
Ended(r) ==
    /\ builder' = r.b
    /\ tpc' = IF r.ok THEN "released" ELSE "panicked"
    /\ block' = IF r.ok THEN release(r.b, r.ret) ELSE NoBlock
    /\ last_call' = [method |-> "end", ok |-> r.ok, ret |-> r.ret]

\* the terminator and builder.release(end)
TranslateEnd ==
    /\ tpc = "assigns"
    /\ next_assign > Len(hlir_block.assigns)
    /\ Ended(CompileEnd(builder, hlir_block.end, block_return_counts))
    /\ UNCHANGED <<hlir_block, block_return_counts, next_assign, calls>>
    /\ UNCHANGED <<cvars, svars>>

Next == TranslateAssignment \/ TranslateEnd

Spec == Init /\ [][Next]_vars

----------------------------------------------------------------------------------------------------------------------------------------
(* Specification SpecBuilder: the methods of one BlockBuilder, called in    *)
(* any order, until release.                                                *)

InitBuilder ==
    /\ \E n \in {0, MaxArgs} : builder = NewBuilder(n)
    /\ hlir_block = HlirBlock(0, <<>>, BlockIsEmpty)
    /\ block_return_counts = <<>>
    /\ next_assign = 1
    /\ tpc = "building"
    /\ block = NoBlock
    /\ last_call = NoCall
    /\ calls = 0
    /\ CFGIdle
    /\ SolverIdle

\* the HLIR binding registered last (HLIR numbers its bindings in order)
LatestResult ==
    LET d == DOMAIN builder.hlir_results IN
    IF d = {} THEN {} ELSE {PBinding(CHOOSE x \in d : \A y \in d : y <= x)}

\* the values a caller passes: a literal, or the HLIR binding registered last
CallerPures == {PConstant(1)} \cup LatestResult

\* the operand lists of a compile_add
CallerRests ==
    (SeqsUpTo({PConstant(2)}, MaxPures) \ {<<>>}) \cup {<<p>> : p \in LatestResult}

\* the parameter lists of a compile_call
CallerParams ==
    {<<>>, <<PConstant(1)>>} \cup {<<PConstant(1), p>> : p \in LatestResult}

\* the next unused HLIR binding
NextHlirBinding == builder.arg_count + Cardinality(DOMAIN builder.hlir_results)

\* the label, assigned usage and target_return_count of a compile_call:
\* All with every label and count, Specific with targets in a
\* caller-declared order
CallerCalls ==
    LET h == NextHlirBinding IN
    {<<l, AssignedAll, n>> : l \in LabelVals, n \in 0..MaxRet}
        \cup {<<0, AssignedSpecific(<<AssignedBinding(h, 1)>>), 0>>,
              <<1, AssignedSpecific(<<AssignedBinding(h, 1),
                                      AssignedBinding(h + 1, 0)>>), MaxRet>>}

Building == tpc = "building" /\ calls < MaxCalls

Called(method, args, r) ==
    /\ builder' = r.b
    /\ tpc' = IF r.ok THEN "building" ELSE "panicked"
    /\ last_call' = [method |-> method, args |-> args, ok |-> r.ok,
                     ret |-> r.ret, before |-> builder]
    /\ calls' = calls + 1
    /\ UNCHANGED <<hlir_block, block_return_counts, next_assign, block>>
    /\ UNCHANGED <<cvars, svars>>

CallCompilePure ==
    /\ Building
    /\ \E v \in CallerPures : Called("compile_pure", <<v>>, compile_pure(builder, v))

CallCompileAdd ==
    /\ Building
    /\ \E lhs \in CallerPures, rest \in CallerRests :
          Called("compile_add", <<lhs, rest>>, compile_add(builder, lhs, rest))

CallCompileCall ==
    /\ Building
    /\ \E params \in CallerParams, c \in CallerCalls :
          Called("compile_call", <<c[1], params, c[2], c[3]>>,
                 compile_call(builder, c[1], params, c[2], c[3]))

CallRelease ==
    /\ tpc = "building"
    /\ block' = release(builder, Return(<<>>))
    /\ tpc' = "released"
    /\ last_call' = [method |-> "release", args |-> <<>>, ok |-> TRUE,
                     ret |-> <<>>, before |-> builder]
    /\ UNCHANGED <<hlir_block, block_return_counts, next_assign, builder, calls>>
    /\ UNCHANGED <<cvars, svars>>

NextBuilder ==
    \/ CallCompilePure
    \/ CallCompileAdd
    \/ CallCompileCall
    \/ CallRelease

SpecBuilder == InitBuilder /\ [][NextBuilder]_vars

----------------------------------------------------------------------------
(* Specification SpecCFG: IR::from_blocks on a list of translated blocks *)

MapInsert(m, k, v) == [x \in (DOMAIN m) \cup {k} |-> IF x = k THEN v ELSE m[x]]

\* backwards_branching_map.entry(target).or_default().insert(label)
EntryInsert(sets, target, label) ==
    MapInsert(sets, target,
              (IF target \in DOMAIN sets THEN sets[target] ELSE {}) \cup {label})

\* mutant of VisitBlock: a conditional branch registers the block as a
\* predecessor of target_if_true only
VisitBlock_true_only(label, end, sets) ==
    CASE end.kind = "Return" -> [edge |-> Dynamic, sets |-> sets]
      [] end.kind = "DirectBranch" ->
            [edge |-> Direct(end.target),
             sets |-> EntryInsert(sets, end.target, label)]
      [] end.kind = "ConditionalBranch" ->
            [edge |-> Conditional(end.target_if_true, end.target_if_false),
             sets |-> EntryInsert(sets, end.target_if_true, label)]

\* the closure mapped over blocks.iter().enumerate(): the block's forward
\* edge, and the predecessor sets after its inserts
VisitBlock(label, end, sets) ==
    CASE end.kind = "Return" -> [edge |-> Dynamic, sets |-> sets]
      [] end.kind = "DirectBranch" ->
            [edge |-> Direct(end.target),
             sets |-> EntryInsert(sets, end.target, label)]
      [] end.kind = "ConditionalBranch" ->
            [edge |-> Conditional(end.target_if_true, end.target_if_false),
             sets |-> EntryInsert(EntryInsert(sets, end.target_if_true, label),
                                  end.target_if_false, label)]

\* mutant of Orders: the predecessors are kept as pushed, so that a label
\* may be listed a second time
Orders_with_repeats(S) ==
    {v \in UNION {[1..n -> S] : n \in Cardinality(S)..(Cardinality(S) + 1)} :
        \A x \in S : \E i \in DOMAIN v : v[i] = x}

\* set.into_iter().collect(): a HashSet is iterated in an unspecified order
Orders(S) ==
    {v \in [1..Cardinality(S) -> S] : \A x \in S : \E i \in DOMAIN v : v[i] = x}

RECURSIVE CollectedMaps(_, _)
\* the maps (label, set) -> (label, Vec) over the labels D
CollectedMaps(sets, D) ==
    IF D = {} THEN {EmptyMap}
    ELSE LET l == CHOOSE x \in D : TRUE IN
         {MapInsert(m, l, v) : m \in CollectedMaps(sets, D \ {l}),
                               v \in Orders(sets[l])}

\* a translated block with the given terminator
BlockEnding(end) ==
    [arg_count |-> 0, binding_defs |-> <<>>, binding_usages |-> <<>>,
     call_return_usages |-> <<>>, operations |-> <<>>, end |-> end]

\* the terminators of a block of a program of n blocks
CFTransfers(n) ==
    {Return(<<>>)} \cup {DirectBranch(t) : t \in 0..(n - 1)}
        \cup {ConditionalBranch(0, t, f) : t \in 0..(n - 1), f \in 0..(n - 1)}

BlockLists ==
    UNION {[1..n -> {BlockEnding(e) : e \in CFTransfers(n)}] : n \in 0..MaxCfgBlocks}

InitCFG ==
    /\ blocks \in BlockLists
    /\ visit = 0
    /\ forwards_branching_map = EmptyMap
    /\ backwards_sets = EmptyMap
    /\ backwards_branching_map = EmptyMap
    /\ cpc = "visit"
    /\ TranslationIdle
    /\ SolverIdle

\* one block of the enumerate pass
FromBlocksVisit ==
    /\ cpc = "visit"
    /\ visit < Len(blocks)
    /\ LET r == VisitBlock(visit, At(blocks, visit).end, backwards_sets) IN
         /\ forwards_branching_map' = MapInsert(forwards_branching_map, visit, r.edge)
         /\ backwards_sets' = r.sets
    /\ visit' = visit + 1
    /\ UNCHANGED <<blocks, backwards_branching_map, cpc>>
    /\ UNCHANGED <<tvars, svars>>

\* the sets are collected into Vecs and the IR is returned
FromBlocksCollect ==
    /\ cpc = "visit"
    /\ visit = Len(blocks)
    /\ backwards_branching_map' \in CollectedMaps(backwards_sets, DOMAIN backwards_sets)
    /\ cpc' = "done"
    /\ UNCHANGED <<blocks, visit, forwards_branching_map, backwards_sets>>
    /\ UNCHANGED <<tvars, svars>>

NextCFG == FromBlocksVisit \/ FromBlocksCollect

SpecCFG == InitCFG /\ [][NextCFG]_vars

----------------------------------------------------------------------------
(* Specification SpecSolver: compute_return_counts on a program, then once  *)
(* more on the same program with its blocks reordered (labels renamed       *)
(* consistently).                                                           *)

Task(index) == [index |-> index, tries |-> 0]

\* slice, solved and queue as the function sets them up before the loop
SolverStart(program) ==
    [slice |-> [i \in 1..Len(program) |-> 0],
     solved |-> {},
     queue |-> [i \in 1..Len(program) |-> Task(i - 1)]]

\* the end of an iteration that did not `continue`
Requeue(q, next) ==
    IF next.index < RetryIndexLimit THEN Append(q, next) ELSE q

Solve(st, rest, index, count) ==
    [slice |-> [st.slice EXCEPT ![index + 1] = count],
     solved |-> st.solved \cup {index},
     queue |-> rest, panicked |-> FALSE, asserted |-> FALSE]

Defer(st, rest, next) ==
    [slice |-> st.slice, solved |-> st.solved, queue |-> Requeue(rest, next),
     panicked |-> FALSE, asserted |-> FALSE]

\* mutant of PopTask: an addition counts one result per operand
PopTask_add_counts_operands(program, st, debug) ==
    LET next == Head(st.queue)
        rest == Tail(st.queue)
        end == At(program, next.index).end
    IN CASE end.kind = "TailValue" /\ end.value.kind = "Copied" ->
                Solve(st, rest, next.index, Len(end.value.pures))
         [] end.kind = "TailValue" /\ end.value.kind = "Add" ->
                Solve(st, rest, next.index, 1 + Len(end.value.rest))
         [] end.kind = "TailValue" /\ end.value.kind = "Call" ->
                LET target_index == end.value.label IN
                IF target_index \in st.solved
                THEN Solve(st, rest, next.index, At(st.slice, target_index))
                ELSE Defer(st, rest, next)
         [] end.kind = "ConditionalBranch" ->
                LET true_index == end.label_if_true
                    false_index == end.label_if_false
                IN IF true_index \in st.solved /\ false_index \in st.solved
                   THEN IF debug /\ At(st.slice, true_index) # At(st.slice, false_index)
                        THEN [slice |-> st.slice, solved |-> st.solved,
                              queue |-> rest, panicked |-> TRUE, asserted |-> TRUE]
                        ELSE [Solve(st, rest, next.index, At(st.slice, true_index))
                                 EXCEPT !.asserted = TRUE]
                   ELSE Defer(st, rest, next)
         [] end.kind = "BlockIsEmpty" ->
                [slice |-> st.slice, solved |-> st.solved, queue |-> rest,
                 panicked |-> TRUE, asserted |-> FALSE]

\* mutant of PopTask: a conditional branch is solved once either arm is
PopTask_either_arm(program, st, debug) ==
    LET next == Head(st.queue)
        rest == Tail(st.queue)
        end == At(program, next.index).end
    IN CASE end.kind = "TailValue" /\ end.value.kind = "Copied" ->
                Solve(st, rest, next.index, Len(end.value.pures))
         [] end.kind = "TailValue" /\ end.value.kind = "Add" ->
                Solve(st, rest, next.index, 1)
         [] end.kind = "TailValue" /\ end.value.kind = "Call" ->
                LET target_index == end.value.label IN
                IF target_index \in st.solved
                THEN Solve(st, rest, next.index, At(st.slice, target_index))
                ELSE Defer(st, rest, next)
         [] end.kind = "ConditionalBranch" ->
                LET true_index == end.label_if_true
                    false_index == end.label_if_false
                IN IF true_index \in st.solved \/ false_index \in st.solved
                   THEN IF debug /\ At(st.slice, true_index) # At(st.slice, false_index)
                        THEN [slice |-> st.slice, solved |-> st.solved,
                              queue |-> rest, panicked |-> TRUE, asserted |-> TRUE]
                        ELSE [Solve(st, rest, next.index, At(st.slice, true_index))
                                 EXCEPT !.asserted = TRUE]
                   ELSE Defer(st, rest, next)
         [] end.kind = "BlockIsEmpty" ->
                [slice |-> st.slice, solved |-> st.solved, queue |-> rest,
                 panicked |-> TRUE, asserted |-> FALSE]

\* one iteration of `while let Some(next) = queue.pop_front()`;
\* debug is whether debug_assert_eq! is compiled in
PopTask(program, st, debug) ==
    LET next == Head(st.queue)
        rest == Tail(st.queue)
        end == At(program, next.index).end
    IN CASE end.kind = "TailValue" /\ end.value.kind = "Copied" ->
                Solve(st, rest, next.index, Len(end.value.pures))
         [] end.kind = "TailValue" /\ end.value.kind = "Add" ->
                Solve(st, rest, next.index, 1)
         [] end.kind = "TailValue" /\ end.value.kind = "Call" ->
                LET target_index == end.value.label IN
                IF target_index \in st.solved
                THEN Solve(st, rest, next.index, At(st.slice, target_index))
                ELSE Defer(st, rest, next)
         [] end.kind = "ConditionalBranch" ->
                LET true_index == end.label_if_true
                    false_index == end.label_if_false
                IN IF true_index \in st.solved /\ false_index \in st.solved
                   THEN IF debug /\ At(st.slice, true_index) # At(st.slice, false_index)
                        THEN [slice |-> st.slice, solved |-> st.solved,
                              queue |-> rest, panicked |-> TRUE, asserted |-> TRUE]
                        ELSE [Solve(st, rest, next.index, At(st.slice, true_index))
                                 EXCEPT !.asserted = TRUE]
                   ELSE Defer(st, rest, next)
         [] end.kind = "BlockIsEmpty" ->
                [slice |-> st.slice, solved |-> st.solved, queue |-> rest,
                 panicked |-> TRUE, asserted |-> FALSE]

\* ---- the programs solved

Literals(k) == [i \in 1..k |-> PConstant(1)]

\* the terminators of block i of n blocks that start at label base: a list
\* of values, an addition, a tail call of itself or of a neighbour, or a
\* conditional branch to the blocks after it
SolverEnds(i, n, base) ==
    LET L(k) == base + ((i + k) % n) IN
    {TailValue(VCopied(Literals(k))) : k \in {1, MaxRet}}
        \cup {TailValue(VAdd(PConstant(1), <<PConstant(2)>>))}
        \cup {TailValue(VCall(L(k), <<>>)) : k \in {0, 1, n - 1}}
        \cup {EConditionalBranch(PConstant(1), L(1), L(2)),
              EConditionalBranch(PConstant(1), L(1), L(1))}

RECURSIVE CoreBlocks(_, _, _)
CoreBlocks(i, n, base) ==
    IF i = n THEN {<<>>}
    ELSE {<<HlirBlock(0, <<>>, e)>> \o rest :
             e \in SolverEnds(i, n, base), rest \in CoreBlocks(i + 1, n, base)}

\* filler blocks that return nothing, placed before the blocks of interest
Fillers(k) == [i \in 1..k |-> HlirBlock(0, <<>>, TailValue(VCopied(<<>>)))]

Programs ==
    UNION {CoreBlocks(0, n, 0) : n \in 1..MaxBlocks}
        \cup UNION {{Fillers(RetryIndexLimit) \o core :
                        core \in CoreBlocks(0, n, RetryIndexLimit)} :
                    n \in 1..(MaxBlocks - 1)}

\* ---- reordering a program

Identity(n) == Range0(n)

\* the reordering that exchanges blocks a and a + 1
SwapNext(n, a) ==
    [i \in 1..n |-> IF i - 1 = a THEN a + 1 ELSE IF i - 1 = a + 1 THEN a ELSE i - 1]

FirstCore(program) == IF Len(program) > RetryIndexLimit THEN RetryIndexLimit ELSE 0

\* the program as it is, or with its first two blocks of interest exchanged
Reorderings(program) ==
    {Identity(Len(program))}
        \cup (IF Len(program) - FirstCore(program) >= 2
              THEN {SwapNext(Len(program), FirstCore(program))} ELSE {})

RelabelEnd(end, p) ==
    CASE end.kind = "TailValue" /\ end.value.kind = "Call" ->
            TailValue(VCall(At(p, end.value.label), end.value.params))
      [] end.kind = "ConditionalBranch" ->
            EConditionalBranch(end.condition, At(p, end.label_if_true),
                               At(p, end.label_if_false))
      [] OTHER -> end

\* block i of the program becomes block p[i], every label l becomes p[l]
Reordered(program, p) ==
    [j \in 1..Len(program) |->
        LET i == CHOOSE x \in 1..Len(program) : p[x] = j - 1 IN
        [program[i] EXCEPT !.end = RelabelEnd(@, p)]]

InitSolver ==
    /\ \E program \in Programs :
         /\ hlir_blocks = program
         /\ perm \in Reorderings(program)
         /\ slice = SolverStart(program).slice
         /\ solved = SolverStart(program).solved
         /\ queue = SolverStart(program).queue
    /\ spc = "loop"
    /\ debug_assertions = "unset"
    /\ first_run = NoTable
    /\ TranslationIdle
    /\ CFGIdle

DebugBuilds ==
    IF debug_assertions = "unset" THEN {"on", "off"} ELSE {debug_assertions}

\* one iteration of the while loop
SolverPop ==
    /\ spc = "loop"
    /\ queue # <<>>
    /\ \E build \in DebugBuilds :
         LET r == PopTask(hlir_blocks,
                          [slice |-> slice, solved |-> solved, queue |-> queue],
                          build = "on")
         IN /\ slice' = r.slice
            /\ solved' = r.solved
            /\ queue' = r.queue
            /\ spc' = IF r.panicked THEN "panicked" ELSE "loop"
            /\ debug_assertions' = IF r.asserted THEN build ELSE debug_assertions
    /\ UNCHANGED <<hlir_blocks, perm, first_run>>
    /\ UNCHANGED <<tvars, cvars>>

\* the queue is empty: slice.into() is returned
SolverReturn ==
    /\ spc = "loop"
    /\ queue = <<>>
    /\ spc' = "returned"
    /\ UNCHANGED <<hlir_blocks, slice, solved, queue, debug_assertions, perm,
                   first_run>>
    /\ UNCHANGED <<tvars, cvars>>

\* compute_return_counts is called again, on the reordered program
SolverRerun ==
    /\ spc = "returned"
    /\ first_run = NoTable
    /\ first_run' = slice
    /\ hlir_blocks' = Reordered(hlir_blocks, perm)
    /\ slice' = SolverStart(hlir_blocks).slice
    /\ solved' = SolverStart(hlir_blocks).solved
    /\ queue' = SolverStart(hlir_blocks).queue
    /\ spc' = "loop"
    /\ UNCHANGED <<debug_assertions, perm>>
    /\ UNCHANGED <<tvars, cvars>>

NextSolver == SolverPop \/ SolverReturn \/ SolverRerun

SpecSolver == InitSolver /\ [][NextSolver]_vars

\* the while loop is sequential code: while an iteration can be taken, the
\* next one is taken
SpecSolverFair == InitSolver /\ [][NextSolver]_vars /\ WF_vars(NextSolver)

----------------------------------------------------------------------------
(* Properties of the translated Block (specification Spec) *)

Released == tpc = "released"
Finished == tpc \in {"released", "panicked"}

\* the bindings handed out by new_binding, in order
Allocated == [i \in DOMAIN builder.allocs |-> builder.allocs[i].binding]

\* the bindings allocated as the results of some compile_call
CallResultBindings ==
    UNION {SeqToSet(builder.call_results[k].bindings) :
              k \in DOMAIN builder.call_results}

HasUsage(blk, binding, index) ==
    /\ binding < Len(blk.binding_usages)
    /\ \E u \in DOMAIN At(blk.binding_usages, binding) :
           At(blk.binding_usages, binding)[u].index = index

\* C1: in every Block produced by from_hlir_block, binding_defs and
\* binding_usages have the same length, which is the number of bindings of
\* the block: the arguments plus every binding allocated for a result.
C1_DefsUsagesAligned ==
    Released =>
        /\ Len(block.binding_defs) = Len(block.binding_usages)
        /\ Len(block.binding_defs) = block.arg_count + Len(builder.allocs)

\* C2: every binding handed out for an operation result differs from every
\* binding allocated before it and from every argument binding (it is
\* >= arg_count).
C2_BindingsUnique ==
    \A i \in DOMAIN builder.allocs :
        /\ Allocated[i] >= builder.arg_count
        /\ \A j \in 1..(i - 1) : Allocated[j] # Allocated[i]

\* C3: every binding b allocated for an operation result is defined in the
\* released Block by binding_defs[b] = Op(i), operations[i] being the
\* operation that produces b (a Constant or Add of define, or the Call of
\* compile_call).
C3_ResultDefinitions ==
    Released =>
        /\ \A i \in DOMAIN builder.allocs :
             LET a == builder.allocs[i] IN
             a.binding \notin CallResultBindings =>
                /\ a.binding < Len(block.binding_defs)
                /\ At(block.binding_defs, a.binding) = DOp(a.definition.index)
                /\ At(block.operations, a.definition.index).op
                      \in {"Constant", "Add"}
        /\ \A k \in DOMAIN builder.call_results :
             \A b \in SeqToSet(builder.call_results[k].bindings) :
                /\ b < Len(block.binding_defs)
                /\ At(block.binding_defs, b) = DOp(builder.call_results[k].op_index)
                /\ At(block.operations, builder.call_results[k].op_index).op = "Call"

\* C4: in every translated Block each use of a binding -- as lhs or rhs of
\* the Add at operation i, as an argument of the Call at operation i, as a
\* returned value or as the branch condition -- has a usage in that
\* binding's usage list, with index Op(i) or BlockEnd respectively.
C4_UsagesComplete ==
    Released =>
        /\ \A i \in DOMAIN block.operations :
             LET o == block.operations[i] IN
             /\ o.op = "Add" =>
                   /\ HasUsage(block, o.lhs, UOp(i - 1))
                   /\ HasUsage(block, o.rhs, UOp(i - 1))
             /\ o.op = "Call" =>
                   \A a \in DOMAIN o.args : HasUsage(block, o.args[a], UOp(i - 1))
        /\ block.end.kind = "Return" =>
             \A v \in DOMAIN block.end.values :
                HasUsage(block, block.end.values[v], UBlockEnd)
        /\ block.end.kind = "ConditionalBranch" =>
             HasUsage(block, block.end.condition_source, UBlockEnd)

\* C5: the result_binding_range stored for a compile_call has as many
\* bindings as result_usage has entries and covers exactly the bindings
\* that call allocated for its results.
C5_ResultRangeExact ==
    \A k \in DOMAIN builder.call_return_usages :
        LET u == builder.call_return_usages[k] IN
        /\ RangeLen(u.result_binding_range) = Len(u.result_usage)
        /\ SeqToSet(RangeBindings(u.result_binding_range))
              = SeqToSet(builder.call_results[k].bindings)


AllArgumentRefs(pures, gets_len) ==
    \A i \in DOMAIN pures : pures[i].kind = "Binding" /\ pures[i].v < gets_len

\* C9: a block with no assignments whose terminator returns arguments by
\* reference is translated (the translation completes) without emitting an
\* operation, each reference resolving to the argument's own binding; with
\* one argument returned: arg_count = 1, binding_defs = [Argument(0)],
\* operations = [], end = Return([binding 0]).
C9_ArgumentReturn ==
    (/\ Finished
     /\ hlir_block.assigns = <<>>
     /\ hlir_block.end.kind = "TailValue"
     /\ hlir_block.end.value.kind = "Copied"
     /\ hlir_block.end.value.pures # <<>>
     /\ AllArgumentRefs(hlir_block.end.value.pures, Len(hlir_block.gets)))
    => /\ Released
       /\ block.arg_count = Len(hlir_block.gets)
       /\ block.binding_defs = [i \in 1..Len(hlir_block.gets) |-> Argument(i - 1)]
       /\ block.operations = <<>>
       /\ block.end = Return([i \in DOMAIN hlir_block.end.value.pures |->
                                 hlir_block.end.value.pures[i].v])

AllLiteralConstants(pures) ==
    \A i \in DOMAIN pures : pures[i].kind = "Constant"

ReturnsLiterals ==
    /\ hlir_block.assigns = <<>>
    /\ hlir_block.end.kind = "TailValue"
    /\ hlir_block.end.value.kind = "Copied"
    /\ AllLiteralConstants(hlir_block.end.value.pures)

\* C10: a block whose terminator returns a list of n literal constants is
\* translated to a Block with exactly n Constant operations in the order of
\* the list, n usage lists, all empty, and end = Return([0, 1, .., n-1]).
C10_ReturnLiterals ==
    (Finished /\ ReturnsLiterals) =>
        LET pures == hlir_block.end.value.pures
            n == Len(pures)
        IN /\ Released
           /\ block.operations = [i \in 1..n |-> OConstant(Numeric(pures[i].v))]
           /\ Len(block.binding_usages) = n
           /\ \A i \in 1..n : block.binding_usages[i] = <<>>
           /\ block.end = Return(Range0(n))

\* the spec's case: Return([a, b]) with two different literals
C10_Witness ==
    /\ Released
    /\ ReturnsLiterals
    /\ hlir_block.end.value.pures = <<PConstant(1), PConstant(2)>>
    /\ block.end = Return(<<0, 1>>)


----------------------------------------------------------------------------
(* Properties of the builder under any sequence of calls (SpecBuilder) *)

RangeSet(r) == SeqToSet(RangeBindings(r))

\* C6: after any sequence of compile_call invocations on one builder, the
\* result_binding_range of any two distinct CallReturnUsage entries are
\* contiguous ranges (start <= end) that share no binding.
C6_RangesDisjoint ==
    \A i, j \in DOMAIN builder.call_return_usages :
        LET ri == builder.call_return_usages[i].result_binding_range
            rj == builder.call_return_usages[j].result_binding_range
        IN /\ ri.start <= ri.end
           /\ i # j => RangeSet(ri) \cap RangeSet(rj) = {}

\* two compile_calls on one builder, each of which allocated result bindings
C6_Witness ==
    /\ Len(builder.call_return_usages) = 2
    /\ \A k \in 1..2 : builder.call_results[k].bindings # <<>>


----------------------------------------------------------------------------
(* Properties of the IR built by from_blocks (SpecCFG) *)

BlockLabels == 0..(Len(blocks) - 1)

Predecessors(L) ==
    IF L \in DOMAIN backwards_branching_map
    THEN SeqToSet(backwards_branching_map[L]) ELSE {}

Targets_of(edge) ==
    CASE edge.kind = "Dynamic" -> {}
      [] edge.kind = "Direct" -> {edge.target}
      [] edge.kind = "Conditional" -> {edge.target_if_true, edge.target_if_false}

\* C7: after from_blocks, P is among backwards_branching_map[L] iff
\* forwards_branching_map[P] is Direct(L) or Conditional with
\* target_if_true = L or target_if_false = L; a block ending in Return has
\* forward edge Dynamic and is a predecessor of no label.
C7_BranchingMapsInverse ==
    cpc = "done" =>
        /\ DOMAIN forwards_branching_map = BlockLabels
        /\ \A L \in BlockLabels \cup DOMAIN backwards_branching_map :
             \A P \in BlockLabels \cup Predecessors(L) :
                P \in Predecessors(L)
                   <=> /\ P \in DOMAIN forwards_branching_map
                       /\ L \in Targets_of(forwards_branching_map[P])
        /\ \A P \in BlockLabels :
             At(blocks, P).end.kind = "Return" =>
                /\ forwards_branching_map[P] = Dynamic
                /\ \A L \in DOMAIN backwards_branching_map : P \notin Predecessors(L)

\* a conditional branch to two different blocks, one of which returns
C7_Witness ==
    /\ cpc = "done"
    /\ \E P, L \in BlockLabels :
         /\ forwards_branching_map[P].kind = "Conditional"
         /\ forwards_branching_map[P].target_if_true # forwards_branching_map[P].target_if_false
         /\ forwards_branching_map[P].target_if_false = L
         /\ forwards_branching_map[L] = Dynamic
         /\ P \in Predecessors(L)


----------------------------------------------------------------------------
(* Properties of compute_return_counts (SpecSolver) *)

SecondRunReturned == spc = "returned" /\ first_run # NoTable

\* C8: return-count solving is idempotent and order-independent: run again
\* on the same program, or on the program with its blocks reordered and
\* its labels renamed consistently, it yields the same count for every
\* block.
C8_OrderIndependent ==
    SecondRunReturned =>
        \A i \in 1..Len(first_run) : At(slice, perm[i]) = first_run[i]

OpKinds(operations) == [i \in DOMAIN operations |-> operations[i].op]

AddsThreeLiterals ==
    /\ hlir_block.assigns = <<>>
    /\ hlir_block.end.kind = "TailValue"
    /\ hlir_block.end.value.kind = "Add"
    /\ hlir_block.end.value.lhs.kind = "Constant"
    /\ Len(hlir_block.end.value.rest) = 2
    /\ AllLiteralConstants(hlir_block.end.value.rest)

\* C11 as stated: the terminator a + b + c of three literal constants is
\* translated to the operations Constant, Constant, Constant, Add, Add.
C11_ConstantsBeforeAdds ==
    (Finished /\ AddsThreeLiterals) =>
        /\ Released
        /\ OpKinds(block.operations)
              = <<"Constant", "Constant", "Constant", "Add", "Add">>

\* C11 amended: the terminator a + b + c of three literal constants is
\* translated to the operations Constant(a), Constant(b), Add, Constant(c),
\* Add: the fold compiles each further operand right before the Add that
\* consumes it, so the third Constant comes after the first Add.
C11_AddInterleaved ==
    (Finished /\ AddsThreeLiterals) =>
        LET v == hlir_block.end.value IN
        /\ Released
        /\ OpKinds(block.operations)
              = <<"Constant", "Constant", "Add", "Constant", "Add">>
        /\ block.operations[1] = OConstant(Numeric(v.lhs.v))
        /\ block.operations[2] = OConstant(Numeric(v.rest[1].v))
        /\ block.operations[4] = OConstant(Numeric(v.rest[2].v))

C11_Witness ==
    /\ Released
    /\ AddsThreeLiterals
    /\ Len(block.operations) = 5
    /\ block.end.kind = "Return"

\* the bindings in use before the k-th new_binding: the arguments and the
\* bindings handed out earlier
InUseBefore(k) ==
    (0..(builder.arg_count - 1)) \cup {Allocated[j] : j \in 1..(k - 1)}

\* C12: for a block whose terminator is a tail call of a callee with return
\* count n, compile_call (All) allocates exactly n fresh result bindings --
\* the last n bindings handed out, each one not in use before -- and
\* records one CallReturnUsage with result_usage = [0, .., n-1] and
\* called_label = the callee.
C12_TailCallAll ==
    (Released /\ IsTailCall(hlir_block)) =>
        LET callee == hlir_block.end.value.label
            n == At(block_return_counts, callee)
            total == Len(builder.allocs)
        IN /\ Len(builder.call_results) = 1
           /\ Len(builder.call_results[1].bindings) = n
           /\ builder.call_results[1].bindings
                 = [i \in 1..n |-> Allocated[total - n + i]]
           /\ \A k \in (total - n + 1)..total : Allocated[k] \notin InUseBefore(k)
           /\ Len(block.call_return_usages) = 1
           /\ block.call_return_usages[1].result_usage = Range0(n)
           /\ block.call_return_usages[1].called_label = callee

----------------------------------------------------------------------------
(* Properties of compute_return_counts (specification SpecSolver) *)

TailCalls(program, a, b) ==
    /\ IsTailCall(At(program, a))
    /\ At(program, a).end.value.label = b

\* two different blocks that tail-call each other
MutualTailCalls(program) ==
    \E a, b \in 0..(Len(program) - 1) :
        a # b /\ TailCalls(program, a, b) /\ TailCalls(program, b, a)

\* C13: when two blocks tail-call each other, return-count solving reports
\* a cyclic-call-graph error: it never returns a table of counts (in which
\* theirs would be defaulted to zero).
C13_CyclicCallGraphError ==
    MutualTailCalls(hlir_blocks) => spc # "returned"

IsConditional(blk) == blk.end.kind = "ConditionalBranch"

\* C14: a conditional-branch block whose arms have different solved counts
\* is reported as an arity mismatch: it is never given a count (marked
\* solved) while its arms' counts differ.
C14_ArityMismatchError ==
    \A i \in solved :
        IsConditional(At(hlir_blocks, i)) =>
            At(slice, At(hlir_blocks, i).end.label_if_true)
                = At(slice, At(hlir_blocks, i).end.label_if_false)

\* C15: compute_return_counts terminates on every block list: the loop is
\* eventually left (the queue empties and the table is returned, or the
\* function panics), also when blocks depend on each other in a cycle.
C15_Terminates == <>(spc # "loop")

\* the blocks whose count the count of block i is taken from
DependsOn(program, i) ==
    LET end == At(program, i).end IN
    IF IsTailCall(At(program, i)) THEN {end.value.label}
    ELSE IF IsConditional(At(program, i))
         THEN {end.label_if_true, end.label_if_false}
         ELSE {}

RECURSIVE Reachable(_, _, _)
\* the blocks reached from S along at most k dependencies
Reachable(program, S, k) ==
    IF k = 0 THEN S
    ELSE Reachable(program, S \cup UNION {DependsOn(program, j) : j \in S}, k - 1)

Acyclic(program) ==
    \A i \in 0..(Len(program) - 1) :
        i \notin Reachable(program, DependsOn(program, i), Len(program))

\* C16: for every program whose dependency graph is acyclic, whatever the
\* number and the indices of its blocks, in the table returned every block
\* that ends in a tail call has the count of its target block.
C16_TailCallCountOfTarget ==
    (spc = "returned" /\ Acyclic(hlir_blocks)) =>
        \A i \in 0..(Len(hlir_blocks) - 1) :
            IsTailCall(At(hlir_blocks, i)) =>
                At(slice, i) = At(slice, At(hlir_blocks, i).end.value.label)

InQueue(i) == \E k \in DOMAIN queue : queue[k].index = i

\* C17: a block that ends in a list of returned values has the length of
\* the list as its count, and a block that ends in an addition has count 1,
\* whatever the other blocks are; it is solved the first time it is popped
\* and never re-queued: at every moment it is either still waiting in the
\* queue, unsolved, or out of the queue and solved with that count.
C17_DirectCounts ==
    \A i \in 0..(Len(hlir_blocks) - 1) :
        LET end == At(hlir_blocks, i).end IN
        (end.kind = "TailValue" /\ end.value.kind \in {"Copied", "Add"}) =>
            /\ InQueue(i) <=> i \notin solved
            /\ i \in solved =>
                  At(slice, i) = IF end.value.kind = "Copied"
                                 THEN Len(end.value.pures) ELSE 1

C17_Witness ==
    /\ spc = "returned"
    /\ \E i, j, k \in 0..(Len(hlir_blocks) - 1) :
          /\ At(hlir_blocks, i).end.kind = "TailValue"
          /\ At(hlir_blocks, i).end.value.kind = "Copied"
          /\ Len(At(hlir_blocks, i).end.value.pures) >= 2
          /\ At(slice, i) = Len(At(hlir_blocks, i).end.value.pures)
          /\ At(hlir_blocks, j).end.kind = "TailValue"
          /\ At(hlir_blocks, j).end.value.kind = "Add"
          /\ At(slice, j) = 1
          /\ IsTailCall(At(hlir_blocks, k))

\* C18: a block that ends in a conditional branch is never in the solved
\* set before both of its arm blocks are; once solved its count is the
\* true arm's count; and the count of a solved block is never written
\* again.
C18_ConditionalAfterArms ==
    [][/\ \A i \in solved' :
            IsConditional(At(hlir_blocks', i)) =>
                LET end == At(hlir_blocks', i).end IN
                /\ end.label_if_true \in solved'
                /\ end.label_if_false \in solved'
                /\ At(slice', i) = At(slice', end.label_if_true)
       /\ \A i \in solved \cap solved' : At(slice', i) = At(slice, i)]_vars

\* a conditional branch popped before its arms were solved, solved later
C18_Witness ==
    /\ spc = "returned"
    /\ \E i \in solved :
          /\ IsConditional(At(hlir_blocks, i))
          /\ i < At(hlir_blocks, i).end.label_if_true
          /\ At(hlir_blocks, i).end.label_if_true
                # At(hlir_blocks, i).end.label_if_false
          /\ At(slice, i) > 0

----------------------------------------------------------------------------
(* Properties of single builder calls (specification SpecBuilder) *)

\* the usages a call pushed on `binding`: what its bucket holds now beyond
\* what it held before the call
RecordedUsages(before, after, binding) ==
    LET now == At(after.binding_usages, binding)
        old == IF binding < Len(before.binding_usages)
               THEN Len(At(before.binding_usages, binding)) ELSE 0
    IN SubSeq(now, old + 1, Len(now))

\* C19: every usage recorded by compile_add is Exclusive with index Op(i),
\* operations[i] being, once compile_add has returned, an Add with the
\* binding the usage was recorded on as lhs or rhs; each operand produced
\* during the call (a compiled literal or an intermediate sum, that is
\* every new binding but the one returned) has exactly one such usage.
C19_AddUsages ==
    (last_call.method = "compile_add" /\ last_call.ok) =>
        LET before == last_call.before
            after == builder
        IN \A x \in 0..(Len(after.binding_usages) - 1) :
            LET rec == RecordedUsages(before, after, x) IN
            /\ \A u \in DOMAIN rec :
                  /\ rec[u].usage_kind = Exclusive
                  /\ rec[u].index.tag = "Op"
                  /\ rec[u].index.index < Len(after.ops)
                  /\ rec[u].index.index >= Len(before.ops)
                  /\ At(after.ops, rec[u].index.index).op = "Add"
                  /\ x \in {At(after.ops, rec[u].index.index).lhs,
                             At(after.ops, rec[u].index.index).rhs}
            /\ (x >= Len(before.binding_usages) /\ x # last_call.ret)
                  => Len(rec) = 1

\* a compile_add on an earlier result and literals, after other operations
C19_Witness ==
    /\ last_call.method = "compile_add"
    /\ last_call.ok
    /\ last_call.before.ops # <<>>
    /\ last_call.args[1].kind = "Binding"
    /\ Len(builder.ops) >= Len(last_call.before.ops) + 4

\* C20: for every compile_call, whatever its parameters are, each parameter
\* binding gets an Exclusive usage, and every usage the call records has
\* index Op(i), operations[i] being the Call operation that compile_call
\* pushed.
C20_CallParamUsages ==
    (last_call.method = "compile_call" /\ last_call.ok) =>
        LET before == last_call.before
            after == builder
            call_index == Len(after.ops) - 1
            call == At(after.ops, call_index)
        IN /\ call.op = "Call"
           /\ \A a \in DOMAIN call.args :
                 LET rec == RecordedUsages(before, after, call.args[a]) IN
                 /\ rec # <<>>
                 /\ \A u \in DOMAIN rec :
                       /\ rec[u].usage_kind = Exclusive
                       /\ rec[u].index = UOp(call_index)

----------------------------------------------------------------------------
(* The solver and the translation together *)

\* the table entry compute_return_counts gives a block placed after the
\* blocks of `table`, once these are solved with the counts of `table`
SolverEntry(blk, table) ==
    LET k == Len(table)
        r == PopTask([i \in 1..(k + 1) |-> blk],
                     [slice |-> Append(table, 0), solved |-> 0..(k - 1),
                      queue |-> <<Task(k)>>],
                     FALSE)
    IN At(r.slice, k)

\* C21: a translated block whose end is Return(values) returns as many
\* bindings as its entry in the table of compute_return_counts; a block
\* that ends in a tail call returns as many bindings as the callee's
\* return count.
C21_ArityAgrees ==
    (Released /\ block.end.kind = "Return") =>
        /\ Len(block.end.values) = SolverEntry(hlir_block, block_return_counts)
        /\ IsTailCall(hlir_block) =>
              Len(block.end.values)
                  = At(block_return_counts, hlir_block.end.value.label)

\* C22: compile_call in Specific mode allocates exactly one fresh binding
\* per caller-bound result, in the caller-declared order: the k-th of them
\* is registered in hlir_results as the translation of the k-th HLIR target
\* and result_usage[k] is the k-th target's assign_index, whatever
\* target_return_count is.
C22_SpecificResults ==
    (/\ last_call.method = "compile_call"
     /\ last_call.ok
     /\ last_call.args[3].kind = "Specific") =>
        LET used == last_call.args[3].used
            m == Len(used)
            total == Len(builder.allocs)
            results == builder.call_results[Len(builder.call_results)].bindings
            usage == builder.call_return_usages[Len(builder.call_return_usages)]
        IN /\ Len(results) = m
           /\ results = [k \in 1..m |-> Allocated[total - m + k]]
           /\ \A k \in (total - m + 1)..total : Allocated[k] \notin InUseBefore(k)
           /\ \A k \in 1..m :
                 /\ used[k].binding \in DOMAIN builder.hlir_results
                 /\ builder.hlir_results[used[k].binding] = results[k]
           /\ usage.result_usage = [k \in 1..m |-> used[k].assign_index]

----------------------------------------------------------------------------
(* More properties of the IR built by from_blocks (SpecCFG) *)

\* C23: in the IR built by from_blocks every list backwards_branching_map[L]
\* holds each predecessor label at most once, also when a conditional
\* branch has target_if_true = target_if_false = L, and
\* forwards_branching_map has exactly one entry per block of the input.
C23_PredecessorsOnce ==
    cpc = "done" =>
        /\ \A L \in DOMAIN backwards_branching_map :
              \A i, j \in DOMAIN backwards_branching_map[L] :
                 i # j => backwards_branching_map[L][i]
                              # backwards_branching_map[L][j]
        /\ DOMAIN forwards_branching_map = BlockLabels
        /\ Cardinality(DOMAIN forwards_branching_map) = Len(blocks)

\* a conditional branch with both arms on L, and L has another predecessor
C23_Witness ==
    /\ cpc = "done"
    /\ \E P \in BlockLabels :
          /\ At(blocks, P).end.kind = "ConditionalBranch"
          /\ At(blocks, P).end.target_if_true = At(blocks, P).end.target_if_false
          /\ P \in Predecessors(At(blocks, P).end.target_if_true)
          /\ Len(backwards_branching_map[At(blocks, P).end.target_if_true]) = 2

----------------------------------------------------------------------------
(* More properties of the builder (SpecBuilder) *)

\* C24: after any sequence of builder operations, every Call operation has
\* a usage_info_index that is an index of call_return_usages, no two Call
\* operations have the same one, call_return_usages[usage_info_index] has
\* the Call's label as called_label, and there are as many Call operations
\* as entries of call_return_usages.
C24_CallUsageInfo ==
    LET Calls == {i \in DOMAIN builder.ops : builder.ops[i].op = "Call"} IN
    /\ \A i \in Calls :
          /\ builder.ops[i].usage_info_index < Len(builder.call_return_usages)
          /\ At(builder.call_return_usages,
                 builder.ops[i].usage_info_index).called_label
                = builder.ops[i].label
    /\ \A i, j \in Calls :
          i # j => builder.ops[i].usage_info_index
                       # builder.ops[j].usage_info_index
    /\ Cardinality(Calls) = Len(builder.call_return_usages)

\* two calls of different labels, with other operations around them
C24_Witness ==
    /\ Len(builder.call_return_usages) = 2
    /\ builder.call_return_usages[1].called_label
          # builder.call_return_usages[2].called_label
    /\ \E i \in DOMAIN builder.ops : builder.ops[i].op = "Constant"
    /\ tpc = "released"

====
